---- MODULE Spec2Model ----
(***************************************************************************)
(* Session layer of the health-card front end: the credential store, the   *)
(* request dispatcher (authenticatedFetch) and the refresh coordinator, in *)
(* the two AuthService classes of the repository:                          *)
(*   "svc"  frontend/src/services/authService.js  (with a waiter queue)    *)
(*   "app"  frontend/src/App.jsx                   (without one)           *)
(* The JavaScript event loop is modelled at its real suspension points:    *)
(* a network event (a response, a failure) is one task; the promise        *)
(* continuations it makes ready run as microtasks before the next task.    *)
(***************************************************************************)
EXTENDS Integers, Sequences, FiniteSets, TLC

\* ------------------------------------------------------------------ bounds
MaxCalls == 2
\* the tokens and profiles handed to the store operations: 1..MaxValue
MaxValue == 2
\* the calls of the runs that follow a waiter past its refresh cycle
MaxWaitCalls == 3
\* the calls of the runs checked for progress
MaxLiveCalls == 2
\* the notification sockets a run creates
MaxSockets == 7
\* the connectNotifications calls the application makes in a run
MaxSessions == 2

\* ------------------------------------------------------------- value space
\* null / undefined: what the getters treat as "no value"
Absent == 0
\* the string localStorage keeps when setItem is handed undefined
UndefStr == -1
\* the profile the backend knows for the logged-in account
Profile == 1

Statuses == {200, 401, 500}
Variants == {"svc", "app"}

NoErr == [kind |-> "none", by |-> 0]
Err(k, c) == [kind |-> k, by |-> c]

NoReply == [ok |-> FALSE, parses |-> FALSE, success |-> FALSE,
            access |-> Absent, refresh |-> Absent, user |-> Absent]

\* op: no store operation called yet
\* name    the operation; a, r, u: the arguments of the latest setTokens, setUser
\* hasTok  a setTokens has returned and no clearAuth has followed; hasUsr alike
\* thrown  the operation threw to its caller
NoOp == [name |-> "none", a |-> Absent, r |-> Absent, u |-> Absent,
         hasTok |-> FALSE, hasUsr |-> FALSE, thrown |-> FALSE]

\* the WebSocketService after its constructor: App.jsx 227-234
\* notificationWs  the socket the service holds (0: null)
\* sockets         every notification socket created: its readyState and
\*                 the token its handlers closed over
\* timers          the tokens of the reconnect timers set and not yet fired
\* session         how many times the application called connectNotifications
\* connected       the application called connectNotifications and has not
\*                 called disconnectAll since
NoWs == [notificationWs |-> 0, sockets |-> <<>>, reconnectAttempts |-> 0,
         timers |-> <<>>, session |-> 0, connected |-> FALSE]

VARIABLES
  variant,            \* which AuthService class the build uses
  tokens,             \* this.tokens = {access, refresh}
  user,               \* this.user
  ls,                 \* localStorage: access_token, refresh_token, user
  refreshInProgress,  \* this.refreshInProgress
  refreshQueue,       \* this.refreshQueue: the waiters, as call ids
  calls,              \* the authenticatedFetch invocations, by call id
  backend,            \* the refresh token the backend accepts, the next to issue
  location,           \* window.location as the service leaves it
  hist,               \* history: what the run has issued and suffered
  op,                 \* the latest direct call of a store operation
  microtasks,         \* the calls whose await has settled, in the order they resume
  ws                  \* the WebSocketService and the sockets it has created

vars == <<variant, tokens, user, ls, refreshInProgress, refreshQueue,
          calls, backend, location, hist, op, microtasks, ws>>

\* the authenticatedFetch invocations of the run
Calls == DOMAIN calls

\* ------------------------------------------------------------ call records
\* pc        where the invocation stands
\* hdr       the Authorization header of its latest fetch (Absent: none)
\* firstHdr  the header of its first fetch
\* sends     how often it has sent its target request
\* refreshes how often it has asked for a refresh
\* cyc       the call whose refresh exchange it belongs to (itself: initiator)
\* settled   how its refresh promise settled; val, rerr: with what
\* lastResp  the status of the latest response to its target request
\* ret       the status of the response it returned (0: none)
\* fetchErr  the error a fetch of its target request rejected with
\* err       the error the invocation rejected with
\* rtok      the refresh token its exchange carries; reply: the backend's answer
IdleCall == [pc |-> "idle", hdr |-> Absent, firstHdr |-> Absent, sends |-> 0,
             refreshes |-> 0, cyc |-> 0, settled |-> "no", val |-> Absent,
             rerr |-> NoErr, lastResp |-> 0, ret |-> 0, fetchErr |-> NoErr,
             err |-> NoErr, rtok |-> Absent, reply |-> NoReply]

\* calls are started in the order of their ids
Started(c) == IF c = 1 THEN TRUE ELSE calls[c - 1].pc # "idle"

\* a continuation that is ready to run as a microtask
Busy == \E c \in Calls : calls[c].pc \in {"resolved", "rejected"}

\* continuations resume in the order their promises were settled: the
\* initiator's, settled by the return or throw of _enqueueRefresh, has one
\* promise job to run; a waiter's has the extra jobs of a promise returned
\* from an async function, so the initiator goes first and the waiters follow
\* in the order forEach settled them
Turn(c) == microtasks # <<>> /\ Head(microtasks) = c

\* the calls whose POST /auth/refresh is issued and not yet settled
InFlight == {c \in Calls : calls[c].pc \in {"refreshing", "refresh_replied", "refresh_body"}}

\* the call whose exchange a new waiter joins
Initiator == IF InFlight = {} THEN 0 ELSE CHOOSE x \in InFlight : TRUE

\* --------------------------------------------------------- credential store
\* JSON.stringify / JSON.parse of a profile: profile p is kept as the string 10 + p
stringify(u) == 10 + u

parses(s) == s >= 10

parse(s) == s - 10

getAccessToken == IF tokens.access # Absent THEN tokens.access ELSE ls.access_token

getRefreshToken == IF tokens.refresh # Absent THEN tokens.refresh ELSE ls.refresh_token

getUser ==
  IF user # Absent THEN user
  ELSE IF ls.user # Absent /\ parses(ls.user) THEN parse(ls.user)
  ELSE Absent

isAuthenticated == getAccessToken # Absent /\ getUser # Absent

\* services/authService.js setTokens, its writes to localStorage: lines 28-31
svcSetTokens(l, a, r) == [l EXCEPT !.access_token = a, !.refresh_token = r]

\* services/authService.js setUser, its writes to localStorage: lines 36-37
svcSetUser(l, u) == [l EXCEPT !.user = IF u # Absent THEN stringify(u) ELSE Absent]

\* App.jsx setTokens: setItem is called whatever the value, lines 44-45
str(x) == IF x = Absent THEN UndefStr ELSE x

appSetTokens(l, a, r) == [l EXCEPT !.access_token = str(a), !.refresh_token = str(r)]

\* App.jsx setUser: setItem('user', JSON.stringify(user)), line 58
appSetUser(l, u) == [l EXCEPT !.user = IF u = Absent THEN UndefStr ELSE stringify(u)]

\* the store after clearAuth()
ClearedTokens == [access |-> Absent, refresh |-> Absent]

ClearedLs == [access_token |-> Absent, refresh_token |-> Absent, user |-> Absent]

\* mutant of clearAuth: the three removeItem calls are lost
clearAuth_KeepsStored ==
  /\ tokens' = ClearedTokens
  /\ user' = Absent
  /\ ls' = ls

\* mutant of clearAuth: removeItem("user") is lost
clearAuth_KeepsUser ==
  /\ tokens' = ClearedTokens
  /\ user' = Absent
  /\ ls' = [ClearedLs EXCEPT !.user = ls.user]

\* clearAuth: the memory copies are nulled and the three keys removed; any
\* other key of localStorage is left alone
clearAuth ==
  /\ tokens' = ClearedTokens
  /\ user' = Absent
  /\ ls' = [ls EXCEPT !.access_token = Absent, !.refresh_token = Absent,
                      !.user = Absent]

\* `Bearer ${token}`: an undefined token is spelled into the header
bearer(t) == IF t = Absent THEN UndefStr ELSE t

\* ------------------------------------------------ services/authService.js
InQueue(x) == \E i \in 1..Len(refreshQueue) : refreshQueue[i] = x

\* mutant of svcSettleResolved: the waiters are handed the access token the
\* store held before the exchange
svcSettleResolved_Stale(c, a) ==
  /\ refreshInProgress' = FALSE
  /\ calls' = [x \in Calls |->
                 IF x = c
                 THEN [calls[x] EXCEPT !.pc = "resolved", !.settled = "resolved",
                                       !.val = a]
                 ELSE IF InQueue(x)
                 THEN [calls[x] EXCEPT !.pc = "resolved", !.settled = "resolved",
                                       !.val = calls[x].firstHdr]
                 ELSE calls[x]]
  /\ refreshQueue' = <<>>
  /\ microtasks' = <<c>> \o refreshQueue

\* mutant of svcSettleResolved: this.refreshQueue = [] of line 84 is lost
svcSettleResolved_KeepsQueue(c, a) ==
  /\ refreshInProgress' = FALSE
  /\ calls' = [x \in Calls |->
                 IF x = c \/ InQueue(x)
                 THEN [calls[x] EXCEPT !.pc = "resolved", !.settled = "resolved",
                                       !.val = a]
                 ELSE calls[x]]
  /\ refreshQueue' = refreshQueue
  /\ microtasks' = <<c>> \o refreshQueue

\* a queue read from its end
Reverse(q) == [i \in 1..Len(q) |-> q[Len(q) + 1 - i]]

\* mutant of svcSettleResolved: the waiters are settled from the end of the
\* queue (while (q.length) q.pop().resolve(a))
svcSettleResolved_Lifo(c, a) ==
  /\ refreshInProgress' = FALSE
  /\ calls' = [x \in Calls |->
                 IF x = c \/ InQueue(x)
                 THEN [calls[x] EXCEPT !.pc = "resolved", !.settled = "resolved",
                                       !.val = a]
                 ELSE calls[x]]
  /\ refreshQueue' = <<>>
  /\ microtasks' = <<c>> \o Reverse(refreshQueue)

\* _enqueueRefresh after the await, success: lines 82-85
svcSettleResolved(c, a) ==
  /\ refreshInProgress' = FALSE
  /\ calls' = [x \in Calls |->
                 IF x = c \/ InQueue(x)
                 THEN [calls[x] EXCEPT !.pc = "resolved", !.settled = "resolved",
                                       !.val = a]
                 ELSE calls[x]]
  /\ refreshQueue' = <<>>
  /\ microtasks' = <<c>> \o refreshQueue

\* mutant of svcSettleRejected: the catch block does not reset the flag
svcSettleRejected_LeavesFlag(c, e) ==
  /\ refreshInProgress' = refreshInProgress
  /\ calls' = [x \in Calls |->
                 IF x = c \/ InQueue(x)
                 THEN [calls[x] EXCEPT !.pc = "rejected", !.settled = "rejected",
                                       !.rerr = e]
                 ELSE calls[x]]
  /\ refreshQueue' = <<>>
  /\ microtasks' = <<c>> \o refreshQueue

\* mutant of svcSettleRejected: the catch block empties the queue without
\* rejecting the waiters
svcSettleRejected_ForgetsWaiters(c, e) ==
  /\ refreshInProgress' = FALSE
  /\ calls' = [calls EXCEPT ![c] = [@ EXCEPT !.pc = "rejected",
                                     !.settled = "rejected", !.rerr = e]]
  /\ refreshQueue' = <<>>
  /\ microtasks' = <<c>>

\* _enqueueRefresh catch: lines 86-90
svcSettleRejected(c, e) ==
  /\ refreshInProgress' = FALSE
  /\ calls' = [x \in Calls |->
                 IF x = c \/ InQueue(x)
                 THEN [calls[x] EXCEPT !.pc = "rejected", !.settled = "rejected",
                                       !.rerr = e]
                 ELSE calls[x]]
  /\ refreshQueue' = <<>>
  /\ microtasks' = <<c>> \o refreshQueue

\* authenticatedFetch up to its first fetch: lines 128-143
svcCall(c) ==
  /\ variant = "svc" /\ ~Busy
  /\ calls[c].pc = "idle"
  /\ Started(c)
  /\ calls' = [calls EXCEPT ![c] = [@ EXCEPT !.pc = "sent", !.sends = 1,
                                     !.hdr = getAccessToken,
                                     !.firstHdr = getAccessToken]]
  /\ UNCHANGED <<ws, microtasks, op, variant, tokens, user, ls, refreshInProgress, refreshQueue,
                 backend, location, hist>>

\* the first fetch rejects: lines 144-147
svcNetworkError(c) ==
  /\ variant = "svc" /\ ~Busy
  /\ calls[c].pc = "sent"
  /\ calls' = [calls EXCEPT ![c] = [@ EXCEPT !.pc = "failed",
                                     !.err = Err("NetErr", c),
                                     !.fetchErr = Err("NetErr", c)]]
  /\ hist' = [hist EXCEPT !.faults = TRUE]
  /\ UNCHANGED <<ws, microtasks, op, variant, tokens, user, ls, refreshInProgress, refreshQueue,
                 backend, location>>

\* mutant of svcEnqueueRefresh: the refreshInProgress test of line 74 is lost,
\* every 401 issues its own exchange
svcEnqueueRefresh_NoGate(c) ==
  IF getRefreshToken = Absent
  THEN /\ clearAuth
       /\ refreshInProgress' = FALSE
       /\ refreshQueue' = <<>>
       /\ microtasks' = <<c>> \o refreshQueue
       /\ calls' = [calls EXCEPT ![c] = [@ EXCEPT !.pc = "rejected", !.lastResp = 401,
                                          !.refreshes = @ + 1, !.cyc = c,
                                          !.settled = "rejected",
                                          !.rerr = Err("NoRefreshToken", c)]]
       /\ UNCHANGED hist
  ELSE /\ refreshInProgress' = TRUE
       /\ calls' = [calls EXCEPT ![c] = [@ EXCEPT !.pc = "refreshing", !.lastResp = 401,
                                          !.refreshes = @ + 1, !.cyc = c,
                                          !.rtok = getRefreshToken]]
       /\ hist' = [hist EXCEPT !.exchanges = @ + 1]
       /\ UNCHANGED <<tokens, user, ls, refreshQueue, microtasks>>

\* a 401 reaches _enqueueRefresh: lines 73-81 with refreshAccessToken 94-108
svcEnqueueRefresh(c) ==
  IF refreshInProgress
  THEN /\ refreshQueue' = Append(refreshQueue, c)
       /\ calls' = [calls EXCEPT ![c] = [@ EXCEPT !.pc = "queued", !.lastResp = 401,
                                          !.refreshes = @ + 1,
                                          !.cyc = Initiator]]
       /\ UNCHANGED <<tokens, user, ls, refreshInProgress, hist, microtasks>>
  ELSE IF getRefreshToken = Absent
  THEN /\ clearAuth
       /\ refreshInProgress' = FALSE
       /\ refreshQueue' = <<>>
       /\ microtasks' = <<c>> \o refreshQueue
       /\ calls' = [x \in Calls |->
                      IF x = c
                      THEN [calls[x] EXCEPT !.pc = "rejected", !.lastResp = 401,
                                            !.refreshes = @ + 1,
                                            !.cyc = c,
                                            !.settled = "rejected",
                                            !.rerr = Err("NoRefreshToken", c)]
                      ELSE IF InQueue(x)
                      THEN [calls[x] EXCEPT !.pc = "rejected",
                                            !.settled = "rejected",
                                            !.rerr = Err("NoRefreshToken", c)]
                      ELSE calls[x]]
       /\ UNCHANGED hist
  ELSE /\ refreshInProgress' = TRUE
       /\ calls' = [calls EXCEPT ![c] = [@ EXCEPT !.pc = "refreshing", !.lastResp = 401,
                                          !.refreshes = @ + 1,
                                          !.cyc = c,
                                          !.rtok = getRefreshToken]]
       /\ hist' = [hist EXCEPT !.exchanges = @ + 1]
       /\ UNCHANGED <<tokens, user, ls, refreshQueue, microtasks>>

\* mutant of svcResponse: a 5xx answer is taken for a transient failure and
\* the request is sent again
svcResponse_RetryOnError(c, s) ==
  /\ variant = "svc" /\ ~Busy
  /\ calls[c].pc = "sent"
  /\ IF s = 401
     THEN svcEnqueueRefresh(c)
     ELSE /\ calls' = [calls EXCEPT ![c] =
                         IF s = 500
                         THEN [@ EXCEPT !.pc = "retry_sent", !.lastResp = s,
                                        !.sends = @ + 1]
                         ELSE [@ EXCEPT !.pc = "done", !.lastResp = s, !.ret = s]]
          /\ UNCHANGED <<tokens, user, ls, refreshInProgress, refreshQueue, hist, microtasks>>
  /\ UNCHANGED <<ws, op, variant, backend, location>>

\* the response to the first fetch: lines 149-152 and 164
svcResponse(c, s) ==
  /\ variant = "svc" /\ ~Busy
  /\ calls[c].pc = "sent"
  /\ IF s = 401
     THEN svcEnqueueRefresh(c)
     ELSE /\ calls' = [calls EXCEPT ![c] = [@ EXCEPT !.pc = "done", !.lastResp = s, !.ret = s]]
          /\ UNCHANGED <<tokens, user, ls, refreshInProgress, refreshQueue, hist, microtasks>>
  /\ UNCHANGED <<ws, op, variant, backend, location>>

\* the fetch of refreshAccessToken rejects: line 102, caught at 86-90
svcRefreshNetworkError(c) ==
  /\ variant = "svc" /\ ~Busy
  /\ calls[c].pc \in {"refreshing", "refresh_replied"}
  /\ svcSettleRejected(c, Err("NetErr", c))
  /\ hist' = [hist EXCEPT !.faults = TRUE]
  /\ UNCHANGED <<ws, op, variant, tokens, user, ls, backend, location>>

\* the refresh response's status line arrives: lines 110-115
svcRefreshResponse(c) ==
  /\ variant = "svc" /\ ~Busy
  /\ calls[c].pc = "refresh_replied"
  /\ IF ~calls[c].reply.ok
     THEN /\ clearAuth
          /\ svcSettleRejected(c, Err("RefreshInvalid", c))
          /\ UNCHANGED hist
     ELSE /\ calls' = [calls EXCEPT ![c] = [@ EXCEPT !.pc = "refresh_body"]]
          /\ UNCHANGED <<tokens, user, ls, refreshInProgress, refreshQueue, hist, microtasks>>
  /\ UNCHANGED <<ws, op, variant, backend, location>>

\* res.json() settles: lines 115-124, then _enqueueRefresh 82-90
svcRefreshBody(c) ==
  /\ variant = "svc" /\ ~Busy
  /\ calls[c].pc = "refresh_body"
  /\ LET r == calls[c].reply IN
     IF ~r.parses
     THEN /\ svcSettleRejected(c, Err("JsonErr", c))
          /\ UNCHANGED hist
          /\ UNCHANGED <<tokens, user, ls>>
     ELSE IF r.success
     THEN /\ tokens' = [access |-> r.access, refresh |-> r.refresh]
          /\ user' = IF r.user # Absent THEN r.user ELSE user
          /\ ls' = IF r.user # Absent
                   THEN svcSetUser(svcSetTokens(ls, r.access, r.refresh), r.user)
                   ELSE svcSetTokens(ls, r.access, r.refresh)
          /\ svcSettleResolved(c, r.access)
          /\ UNCHANGED hist
     ELSE /\ clearAuth
          /\ svcSettleRejected(c, Err("InvalidResponse", c))
          /\ UNCHANGED hist
  /\ UNCHANGED <<ws, op, variant, backend, location>>

\* the await of _enqueueRefresh resumes with a token: lines 152-154
svcRetry(c) ==
  /\ variant = "svc" /\ Turn(c)
  /\ calls[c].pc = "resolved"
  /\ calls' = [calls EXCEPT ![c] = [@ EXCEPT !.pc = "retry_sent",
                                     !.hdr = bearer(calls[c].val),
                                     !.sends = @ + 1]]
  /\ microtasks' = Tail(microtasks)
  /\ UNCHANGED <<ws, op, variant, tokens, user, ls, refreshInProgress, refreshQueue,
                 backend, location, hist>>

\* the await of _enqueueRefresh throws: lines 155-161
svcRefreshFailed(c) ==
  /\ variant = "svc" /\ Turn(c)
  /\ calls[c].pc = "rejected"
  /\ clearAuth
  /\ location' = "/login"
  /\ calls' = [calls EXCEPT ![c] = [@ EXCEPT !.pc = "failed", !.err = calls[c].rerr]]
  /\ hist' = [hist EXCEPT !.expired = TRUE]
  /\ microtasks' = Tail(microtasks)
  /\ UNCHANGED <<ws, op, variant, refreshInProgress, refreshQueue, backend>>

\* the response to the retried fetch: lines 154 and 164
svcRetryResponse(c, s) ==
  /\ variant = "svc" /\ ~Busy
  /\ calls[c].pc = "retry_sent"
  /\ calls' = [calls EXCEPT ![c] = [@ EXCEPT !.pc = "done", !.lastResp = s, !.ret = s]]
  /\ UNCHANGED <<ws, microtasks, op, variant, tokens, user, ls, refreshInProgress, refreshQueue,
                 backend, location, hist>>

\* the retried fetch rejects inside the try: lines 154-161
svcRetryNetworkError(c) ==
  /\ variant = "svc" /\ ~Busy
  /\ calls[c].pc = "retry_sent"
  /\ clearAuth
  /\ location' = "/login"
  /\ calls' = [calls EXCEPT ![c] = [@ EXCEPT !.pc = "failed",
                                     !.err = Err("NetErr", c),
                                     !.fetchErr = Err("NetErr", c)]]
  /\ hist' = [hist EXCEPT !.faults = TRUE]
  /\ UNCHANGED <<ws, microtasks, op, variant, refreshInProgress, refreshQueue, backend>>

\* ------------------------------------------------------------------ backend
\* POST /auth/refresh with rotation: a refresh token is accepted once, the
\* reply carries its successor
GoodReply(g, u) == [ok |-> TRUE, parses |-> TRUE, success |-> TRUE,
                    access |-> g, refresh |-> g, user |-> u]

\* replies of a backend that does not honour the contract
FaultReplies ==
  { [NoReply EXCEPT !.ok = FALSE],
    [NoReply EXCEPT !.ok = TRUE],
    [NoReply EXCEPT !.ok = TRUE, !.parses = TRUE],
    [NoReply EXCEPT !.ok = TRUE, !.parses = TRUE, !.success = TRUE] }

ServerRefresh(c) ==
  /\ ~Busy
  /\ calls[c].pc = "refreshing"
  /\ \/ /\ calls[c].rtok \in backend.valid
        /\ \E u \in {Absent, Profile} :
             calls' = [calls EXCEPT ![c] = [@ EXCEPT !.pc = "refresh_replied",
                                             !.reply = GoodReply(backend.next, u)]]
        /\ backend' = [valid |-> (backend.valid \ {calls[c].rtok}) \cup {backend.next},
                       next |-> backend.next + 1]
        /\ UNCHANGED hist
     \/ /\ calls[c].rtok \notin backend.valid
        /\ calls' = [calls EXCEPT ![c] = [@ EXCEPT !.pc = "refresh_replied",
                                           !.reply = [NoReply EXCEPT !.ok = FALSE]]]
        /\ UNCHANGED <<backend, hist>>
     \/ /\ \E f \in FaultReplies :
             calls' = [calls EXCEPT ![c] = [@ EXCEPT !.pc = "refresh_replied",
                                             !.reply = f]]
        /\ hist' = [hist EXCEPT !.faults = TRUE]
        /\ UNCHANGED backend
  /\ UNCHANGED <<ws, microtasks, op, variant, tokens, user, ls, refreshInProgress, refreshQueue, location>>

\* ------------------------------------------------------------------ App.jsx
\* refreshAccessToken's catch (121-125) then authenticatedFetch's (163-168):
\* the session is cleared, the page reloaded, a new Error thrown
appSessionExpired(c, rec) ==
  /\ clearAuth
  /\ location' = "reload"
  /\ calls' = [calls EXCEPT ![c] = [rec EXCEPT !.pc = "failed",
                                       !.err = Err("SessionExpired", c)]]

\* authenticatedFetch up to its first fetch: lines 128-146
appCall(c) ==
  /\ variant = "app"
  /\ calls[c].pc = "idle"
  /\ Started(c)
  /\ IF getAccessToken = Absent
     THEN calls' = [calls EXCEPT ![c] = [@ EXCEPT !.pc = "failed",
                                          !.err = Err("NoAccessToken", c)]]
     ELSE calls' = [calls EXCEPT ![c] = [@ EXCEPT !.pc = "sent", !.sends = 1,
                                          !.hdr = getAccessToken,
                                          !.firstHdr = getAccessToken]]
  /\ UNCHANGED <<ws, microtasks, op, variant, tokens, user, ls, refreshInProgress, refreshQueue,
                 backend, location, hist>>

\* the first fetch rejects: lines 146 and 172-175
appNetworkError(c) ==
  /\ variant = "app"
  /\ calls[c].pc = "sent"
  /\ calls' = [calls EXCEPT ![c] = [@ EXCEPT !.pc = "failed",
                                     !.err = Err("NetErr", c),
                                     !.fetchErr = Err("NetErr", c)]]
  /\ hist' = [hist EXCEPT !.faults = TRUE]
  /\ UNCHANGED <<ws, microtasks, op, variant, tokens, user, ls, refreshInProgress, refreshQueue,
                 backend, location>>

\* the response to the first fetch: lines 149-153 with refreshAccessToken 88-104
appResponse(c, s) ==
  /\ variant = "app"
  /\ calls[c].pc = "sent"
  /\ IF s # 401
     THEN /\ calls' = [calls EXCEPT ![c] = [@ EXCEPT !.pc = "done", !.lastResp = s, !.ret = s]]
          /\ UNCHANGED <<tokens, user, ls, location, hist>>
     ELSE IF getRefreshToken = Absent
     THEN /\ appSessionExpired(c, [calls[c] EXCEPT
                                        !.lastResp = 401, !.refreshes = @ + 1,
                                        !.cyc = c, !.settled = "rejected",
                                        !.rerr = Err("NoRefreshToken", c)])
          /\ hist' = [hist EXCEPT !.expired = TRUE]
     ELSE /\ calls' = [calls EXCEPT ![c] = [@ EXCEPT !.pc = "refreshing", !.lastResp = 401,
                                             !.refreshes = @ + 1, !.cyc = c,
                                             !.rtok = getRefreshToken]]
          /\ hist' = [hist EXCEPT !.exchanges = @ + 1]
          /\ UNCHANGED <<tokens, user, ls, location>>
  /\ UNCHANGED <<ws, microtasks, op, variant, refreshInProgress, refreshQueue, backend>>

\* the fetch of refreshAccessToken rejects: line 98, caught at 121-125
appRefreshNetworkError(c) ==
  /\ variant = "app"
  /\ calls[c].pc \in {"refreshing", "refresh_replied"}
  /\ appSessionExpired(c, [calls[c] EXCEPT !.settled = "rejected",
                                           !.rerr = Err("NetErr", c)])
  /\ hist' = [hist EXCEPT !.expired = TRUE, !.faults = TRUE]
  /\ UNCHANGED <<ws, microtasks, op, variant, refreshInProgress, refreshQueue, backend>>

\* the refresh response's status line arrives: lines 106-110
appRefreshResponse(c) ==
  /\ variant = "app"
  /\ calls[c].pc = "refresh_replied"
  /\ IF ~calls[c].reply.ok
     THEN /\ appSessionExpired(c, [calls[c] EXCEPT !.settled = "rejected",
                                                   !.rerr = Err("RefreshFailed", c)])
          /\ hist' = [hist EXCEPT !.expired = TRUE]
     ELSE /\ calls' = [calls EXCEPT ![c] = [@ EXCEPT !.pc = "refresh_body"]]
          /\ UNCHANGED <<tokens, user, ls, location, hist>>
  /\ UNCHANGED <<ws, microtasks, op, variant, refreshInProgress, refreshQueue, backend>>

\* response.json() settles: lines 110-125, then authenticatedFetch 153-158
appRefreshBody(c) ==
  /\ variant = "app"
  /\ calls[c].pc = "refresh_body"
  /\ LET r == calls[c].reply IN
     IF r.parses /\ r.success
     THEN /\ tokens' = [access |-> r.access, refresh |-> r.refresh]
          /\ user' = r.user
          /\ ls' = appSetUser(appSetTokens(ls, r.access, r.refresh), r.user)
          /\ calls' = [calls EXCEPT ![c] = [@ EXCEPT !.pc = "retry_sent",
                                             !.settled = "resolved",
                                             !.val = r.access,
                                             !.hdr = bearer(r.access),
                                             !.sends = @ + 1]]
          /\ UNCHANGED <<location, hist>>
     ELSE /\ appSessionExpired(c, [calls[c] EXCEPT
                                        !.settled = "rejected",
                                        !.rerr = Err(IF r.parses THEN "InvalidFormat"
                                                     ELSE "JsonErr", c)])
          /\ hist' = [hist EXCEPT !.expired = TRUE]
  /\ UNCHANGED <<ws, microtasks, op, variant, refreshInProgress, refreshQueue, backend>>

\* mutant of appRetryResponse: a 401 on the retried request is retried again
appRetryResponse_Again(c, s) ==
  /\ variant = "app"
  /\ calls[c].pc = "retry_sent"
  /\ calls' = [calls EXCEPT ![c] = IF s = 401 /\ calls[c].sends < 3
                                    THEN [@ EXCEPT !.lastResp = s, !.sends = @ + 1]
                                    ELSE [@ EXCEPT !.pc = "done", !.lastResp = s,
                                                   !.ret = s]]
  /\ UNCHANGED <<ws, microtasks, op, variant, tokens, user, ls, refreshInProgress, refreshQueue,
                 backend, location, hist>>

\* the response to the retried fetch: lines 158 and 171
appRetryResponse(c, s) ==
  /\ variant = "app"
  /\ calls[c].pc = "retry_sent"
  /\ calls' = [calls EXCEPT ![c] = [@ EXCEPT !.pc = "done", !.lastResp = s, !.ret = s]]
  /\ UNCHANGED <<ws, microtasks, op, variant, tokens, user, ls, refreshInProgress, refreshQueue,
                 backend, location, hist>>

\* the retried fetch rejects inside the inner try: lines 158 and 163-168
appRetryNetworkError(c) ==
  /\ variant = "app"
  /\ calls[c].pc = "retry_sent"
  /\ appSessionExpired(c, [calls[c] EXCEPT !.fetchErr = Err("NetErr", c)])
  /\ hist' = [hist EXCEPT !.expired = TRUE, !.faults = TRUE]
  /\ UNCHANGED <<ws, microtasks, op, variant, refreshInProgress, refreshQueue, backend>>

\* ------------------------------------------------------------------- logout
\* App.handleLogout, what it does to the session: clearAuth, line 497
handleLogout ==
  /\ ~Busy
  /\ ~hist.loggedOut
  /\ clearAuth
  /\ hist' = [hist EXCEPT !.loggedOut = TRUE]
  /\ UNCHANGED <<ws, microtasks, op, variant, refreshInProgress, refreshQueue, calls, backend, location>>

\* ------------------------------------------------------------ specification
\* the constructor hydrates from localStorage: a stored session or none
Sessions == {[access |-> 1, refresh |-> 1, user |-> Profile],
             [access |-> Absent, refresh |-> Absent, user |-> Absent]}

Init ==
  /\ variant \in Variants
  /\ \E s \in Sessions :
       /\ tokens = [access |-> s.access, refresh |-> s.refresh]
       /\ user = s.user
       /\ ls = [access_token |-> s.access, refresh_token |-> s.refresh,
                user |-> IF s.user = Absent THEN Absent ELSE stringify(s.user)]
       /\ hist = [exchanges |-> 0, faults |-> FALSE, expired |-> FALSE,
                  loggedOut |-> FALSE, hadSession |-> s.access # Absent]
  /\ refreshInProgress = FALSE
  /\ refreshQueue = <<>>
  /\ calls = [c \in 1..MaxCalls |-> IdleCall]
  /\ backend = [valid |-> {1}, next |-> 2]
  /\ location = "/"
  /\ op = NoOp
  /\ microtasks = <<>>
  /\ ws = NoWs

Next ==
  \/ \E c \in Calls : svcCall(c)
  \/ \E c \in Calls : svcNetworkError(c)
  \/ \E c \in Calls, s \in Statuses : svcResponse(c, s)
  \/ \E c \in Calls : svcRefreshNetworkError(c)
  \/ \E c \in Calls : svcRefreshResponse(c)
  \/ \E c \in Calls : svcRefreshBody(c)
  \/ \E c \in Calls : svcRetry(c)
  \/ \E c \in Calls : svcRefreshFailed(c)
  \/ \E c \in Calls, s \in Statuses : svcRetryResponse(c, s)
  \/ \E c \in Calls : svcRetryNetworkError(c)
  \/ \E c \in Calls : appCall(c)
  \/ \E c \in Calls : appNetworkError(c)
  \/ \E c \in Calls, s \in Statuses : appResponse(c, s)
  \/ \E c \in Calls : appRefreshNetworkError(c)
  \/ \E c \in Calls : appRefreshResponse(c)
  \/ \E c \in Calls : appRefreshBody(c)
  \/ \E c \in Calls, s \in Statuses : appRetryResponse(c, s)
  \/ \E c \in Calls : appRetryNetworkError(c)
  \/ \E c \in Calls : ServerRefresh(c)
  \/ handleLogout

Spec == Init /\ [][Next]_vars

\* ------------------------------------------- the store operations, called
\* directly (login, logout, a page reload) rather than by a refresh
Values == 0..MaxValue

\* the setItem call that throws (QuotaExceededError), if one does
SetItemFailures == {"none", "access_token", "refresh_token", "user"}

\* setTokens: services/authService.js 26-32, App.jsx 39-46. The memory copy is
\* assigned first; a setItem that throws leaves the later writes undone
setTokens(a, r, f) ==
  /\ f \in {"none", "access_token", "refresh_token"}
  /\ f = "access_token" => (variant = "app" \/ a # Absent)
  /\ f = "refresh_token" => (variant = "app" \/ r # Absent)
  /\ tokens' = [access |-> a, refresh |-> r]
  /\ LET full == IF variant = "svc" THEN svcSetTokens(ls, a, r)
                 ELSE appSetTokens(ls, a, r) IN
       ls' = CASE f = "none" -> full
                [] f = "access_token" -> ls
                [] f = "refresh_token" ->
                     [full EXCEPT !.refresh_token = ls.refresh_token]
  /\ op' = [op EXCEPT !.name = "setTokens", !.a = a, !.r = r,
                      !.hasTok = (f = "none"), !.thrown = (f # "none")]
  /\ UNCHANGED <<ws, microtasks, variant, user, refreshInProgress, refreshQueue, calls,
                 backend, location, hist>>

\* mutant of setUser: the memory-only design, nothing is persisted
setUser_MemoryOnly(u, f) ==
  /\ f = "none"
  /\ user' = u
  /\ op' = [op EXCEPT !.name = "setUser", !.u = u, !.hasUsr = TRUE,
                      !.thrown = FALSE]
  /\ UNCHANGED <<ws, microtasks, variant, tokens, ls, refreshInProgress, refreshQueue, calls,
                 backend, location, hist>>

\* setUser: services/authService.js 34-38, App.jsx 56-59
setUser(u, f) ==
  /\ f \in {"none", "user"}
  /\ f = "user" => (variant = "app" \/ u # Absent)
  /\ user' = u
  /\ ls' = IF f = "user" THEN ls
           ELSE IF variant = "svc" THEN svcSetUser(ls, u) ELSE appSetUser(ls, u)
  /\ op' = [op EXCEPT !.name = "setUser", !.u = u,
                      !.hasUsr = (f = "none"), !.thrown = (f # "none")]
  /\ UNCHANGED <<ws, microtasks, variant, tokens, refreshInProgress, refreshQueue, calls,
                 backend, location, hist>>

\* clearAuth() called on its own: services/authService.js 40-46, App.jsx 76-82
clearAuthCall ==
  /\ clearAuth
  /\ op' = [op EXCEPT !.name = "clearAuth", !.hasTok = FALSE, !.hasUsr = FALSE,
                      !.thrown = FALSE]
  /\ UNCHANGED <<ws, microtasks, variant, refreshInProgress, refreshQueue, calls, backend,
                 location, hist>>

\* a new AuthService over the same localStorage: the constructor and
\* _loadFromStorage, services/authService.js 5-24, App.jsx 16-37. A stored user
\* that JSON.parse rejects takes the catch branch
loadFromStorage ==
  /\ IF ls.user # Absent /\ ~parses(ls.user)
     THEN tokens' = ClearedTokens /\ user' = Absent
     ELSE /\ tokens' = [access |-> ls.access_token, refresh |-> ls.refresh_token]
          /\ user' = IF ls.user # Absent THEN parse(ls.user) ELSE Absent
  /\ op' = [op EXCEPT !.name = "reload", !.thrown = FALSE]
  /\ UNCHANGED <<ws, microtasks, variant, ls, refreshInProgress, refreshQueue, calls, backend,
                 location, hist>>

StoreNext ==
  \/ \E a \in Values, r \in Values, f \in SetItemFailures : setTokens(a, r, f)
  \/ \E u \in Values, f \in SetItemFailures : setUser(u, f)
  \/ clearAuthCall
  \/ loadFromStorage

StoreSpec == Init /\ [][StoreNext]_vars

\* ------------------------------------- services/authService.js, three calls
\* Runs long enough for a second refresh cycle to follow one that had a
\* waiter. The service starts with a session; a target request is answered
\* 200 or 401 and a retried one 200; the refresh exchange may end any way.
WaitInit ==
  /\ variant = "svc"
  /\ tokens = [access |-> 1, refresh |-> 1]
  /\ user = Profile
  /\ ls = [access_token |-> 1, refresh_token |-> 1, user |-> stringify(Profile)]
  /\ hist = [exchanges |-> 0, faults |-> FALSE, expired |-> FALSE,
             loggedOut |-> FALSE, hadSession |-> TRUE]
  /\ refreshInProgress = FALSE
  /\ refreshQueue = <<>>
  /\ calls = [c \in 1..MaxWaitCalls |-> IdleCall]
  /\ backend = [valid |-> {1}, next |-> 2]
  /\ location = "/"
  /\ op = NoOp
  /\ microtasks = <<>>
  /\ ws = NoWs

WaitNext ==
  \/ \E c \in Calls : svcCall(c)
  \/ \E c \in Calls, s \in {200, 401} : svcResponse(c, s)
  \/ \E c \in Calls : svcRefreshNetworkError(c)
  \/ \E c \in Calls : svcRefreshResponse(c)
  \/ \E c \in Calls : svcRefreshBody(c)
  \/ \E c \in Calls : svcRetry(c)
  \/ \E c \in Calls : svcRefreshFailed(c)
  \/ \E c \in Calls : svcRetryResponse(c, 200)
  \/ \E c \in Calls : ServerRefresh(c)

WaitSpec == WaitInit /\ [][WaitNext]_vars

\* ------------------------------- services/authService.js, under fairness
\* Every network call that was issued completes, and every continuation that
\* is ready runs: the steps of a call other than its start are weakly fair.
LiveInit ==
  /\ variant = "svc"
  /\ tokens = [access |-> 1, refresh |-> 1]
  /\ user = Profile
  /\ ls = [access_token |-> 1, refresh_token |-> 1, user |-> stringify(Profile)]
  /\ hist = [exchanges |-> 0, faults |-> FALSE, expired |-> FALSE,
             loggedOut |-> FALSE, hadSession |-> TRUE]
  /\ refreshInProgress = FALSE
  /\ refreshQueue = <<>>
  /\ calls = [c \in 1..MaxLiveCalls |-> IdleCall]
  /\ backend = [valid |-> {1}, next |-> 2]
  /\ location = "/"
  /\ op = NoOp
  /\ microtasks = <<>>
  /\ ws = NoWs

\* the network answers call c, or a continuation of call c that is ready runs
Completes(c) ==
  \/ \E s \in {200, 401} : svcResponse(c, s)
  \/ ServerRefresh(c)
  \/ svcRefreshResponse(c)
  \/ svcRefreshBody(c)
  \/ svcRetry(c)
  \/ svcRefreshFailed(c)
  \/ svcRetryResponse(c, 200)

LiveSpec ==
  /\ LiveInit
  /\ [][WaitNext]_vars
  /\ \A c \in 1..MaxLiveCalls : WF_vars(Completes(c))

\* ------------------------------------------------------------ utils/auth.js
\* The auth object and the authenticatedFetch exported by utils/auth.js, over
\* the localStorage they share with an AuthService. They keep the access
\* token under the key "token".
serviceVars == <<variant, tokens, user, refreshInProgress, refreshQueue,
                 microtasks, op, ws, hist>>

\* auth.getToken: line 9
utilGetToken == ls.token

\* auth.getRefreshToken: line 12
utilGetRefreshToken == ls.refresh_token

\* auth.setTokens: lines 15-20. Its body reads data.data.access_token, and no
\* data is in scope: the call throws a ReferenceError before any setItem
utilSetTokens(l, a, r) == [threw |-> TRUE, ls |-> l]

\* auth.clearTokens: lines 23-27
utilClearTokens(l) == [l EXCEPT !.token = Absent, !.refresh_token = Absent,
                                !.user = Absent]

\* authenticatedFetch up to its fetch: lines 69-82
utilAuthenticatedFetch(c) ==
  /\ calls[c].pc = "idle"
  /\ Started(c)
  /\ calls' = [calls EXCEPT ![c] = [@ EXCEPT !.pc = "sent", !.sends = 1,
                                     !.hdr = utilGetToken,
                                     !.firstHdr = utilGetToken]]
  /\ UNCHANGED <<serviceVars, ls, backend, location>>

\* the response arrives and is returned, whatever its status: lines 82-88
utilResponse(c, s) ==
  /\ calls[c].pc = "sent"
  /\ calls' = [calls EXCEPT ![c] = [@ EXCEPT !.pc = "done", !.lastResp = s,
                                     !.ret = s]]
  /\ UNCHANGED <<serviceVars, ls, backend, location>>

\* the fetch rejects: lines 89-92
utilNetworkError(c) ==
  /\ calls[c].pc = "sent"
  /\ calls' = [calls EXCEPT ![c] = [@ EXCEPT !.pc = "failed",
                                     !.err = Err("NetErr", c),
                                     !.fetchErr = Err("NetErr", c)]]
  /\ UNCHANGED <<serviceVars, ls, backend, location>>

\* auth.refreshToken up to its fetch: lines 35-49
utilRefreshToken(c) ==
  /\ calls[c].pc = "idle"
  /\ Started(c)
  /\ IF utilGetRefreshToken = Absent
     THEN calls' = [calls EXCEPT ![c] = [@ EXCEPT !.pc = "failed", !.refreshes = 1,
                                          !.cyc = c, !.settled = "rejected",
                                          !.rerr = Err("NoRefreshToken", c),
                                          !.err = Err("NoRefreshToken", c)]]
     ELSE calls' = [calls EXCEPT ![c] = [@ EXCEPT !.pc = "refreshing",
                                          !.refreshes = 1, !.cyc = c,
                                          !.rtok = utilGetRefreshToken]]
  /\ UNCHANGED <<serviceVars, ls, backend, location>>

\* the catch of auth.refreshToken: lines 58-61
utilRefreshCaught(c, k) ==
  /\ ls' = utilClearTokens(ls)
  /\ calls' = [calls EXCEPT ![c] = [@ EXCEPT !.pc = "failed",
                                     !.settled = "rejected",
                                     !.rerr = Err(k, c), !.err = Err(k, c)]]

\* the fetch of auth.refreshToken rejects: lines 43 and 58-61
utilRefreshNetworkError(c) ==
  /\ calls[c].pc \in {"refreshing", "refresh_replied"}
  /\ utilRefreshCaught(c, "NetErr")
  /\ UNCHANGED <<serviceVars, backend, location>>

\* the refresh response's status line arrives: lines 51-55
utilRefreshResponse(c) ==
  /\ calls[c].pc = "refresh_replied"
  /\ IF ~calls[c].reply.ok
     THEN utilRefreshCaught(c, "RefreshFailed")
     ELSE /\ calls' = [calls EXCEPT ![c] = [@ EXCEPT !.pc = "refresh_body"]]
          /\ UNCHANGED ls
  /\ UNCHANGED <<serviceVars, backend, location>>

\* response.json() settles: lines 55-61. A body without data makes
\* data.data.access_token a TypeError; otherwise auth.setTokens is called
utilRefreshBody(c) ==
  /\ calls[c].pc = "refresh_body"
  /\ LET r == calls[c].reply
         set == utilSetTokens(ls, r.access, r.refresh) IN
     IF ~r.parses THEN utilRefreshCaught(c, "JsonErr")
     ELSE IF ~r.success THEN utilRefreshCaught(c, "TypeError")
     ELSE IF set.threw THEN utilRefreshCaught(c, "ReferenceError")
     ELSE /\ ls' = set.ls
          /\ calls' = [calls EXCEPT ![c] = [@ EXCEPT !.pc = "done",
                                             !.settled = "resolved",
                                             !.val = r.access]]
  /\ UNCHANGED <<serviceVars, backend, location>>

\* logout: lines 99-102
utilLogout ==
  /\ location # "/login"
  /\ ls' = utilClearTokens(ls)
  /\ location' = "/login"
  /\ UNCHANGED <<serviceVars, calls, backend>>

\* nothing stored, no session: the state before any login
UtilInit ==
  /\ variant \in Variants
  /\ tokens = ClearedTokens
  /\ user = Absent
  /\ ls = [token |-> Absent, access_token |-> Absent, refresh_token |-> Absent,
           user |-> Absent]
  /\ hist = [exchanges |-> 0, faults |-> FALSE, expired |-> FALSE,
             loggedOut |-> FALSE, hadSession |-> FALSE]
  /\ refreshInProgress = FALSE
  /\ refreshQueue = <<>>
  /\ calls = [c \in 1..MaxCalls |-> IdleCall]
  /\ backend = [valid |-> {1}, next |-> 2]
  /\ location = "/"
  /\ op = NoOp
  /\ microtasks = <<>>
  /\ ws = NoWs

\* the AuthService logs in with the pair the backend issued and the profile
\* (handleLogin: setTokens, setUser) and logs out (clearAuth), while pages call
\* the exports of utils/auth.js
UtilNext ==
  \/ setTokens(1, 1, "none")
  \/ setUser(Profile, "none")
  \/ clearAuthCall
  \/ \E c \in Calls : utilAuthenticatedFetch(c)
  \/ \E c \in Calls, s \in Statuses : utilResponse(c, s)
  \/ \E c \in Calls : utilNetworkError(c)
  \/ \E c \in Calls : utilRefreshToken(c)
  \/ \E c \in Calls : ServerRefresh(c)
  \/ \E c \in Calls : utilRefreshNetworkError(c)
  \/ \E c \in Calls : utilRefreshResponse(c)
  \/ \E c \in Calls : utilRefreshBody(c)
  \/ utilLogout

UtilSpec == UtilInit /\ [][UtilNext]_vars

\* ---------------------------------------------------------- WebSocketService
\* The notification socket of the WebSocketService in App.jsx. The chat
\* socket has no reconnect and is left out.
restVars == <<variant, tokens, user, ls, refreshInProgress, refreshQueue,
              calls, backend, location, hist, op, microtasks>>

\* this.maxReconnectAttempts: App.jsx 233
maxReconnectAttempts == 5

\* the i-th element of q removed
RemoveAt(q, i) == SubSeq(q, 1, i - 1) \o SubSeq(q, i + 1, Len(q))

\* connectNotifications(token) returns without a new socket: App.jsx 238-241
AlreadyConnected(w) ==
  /\ w.notificationWs # 0
  /\ w.sockets[w.notificationWs].readyState = "open"

\* connectNotifications(token): App.jsx 237-273
connectNotifications(w, token) ==
  IF AlreadyConnected(w) THEN w
  ELSE [w EXCEPT !.sockets = Append(@, [readyState |-> "connecting",
                                        token |-> token]),
                 !.notificationWs = Len(w.sockets) + 1]

\* attemptReconnectNotifications(token): App.jsx 320-330
attemptReconnectNotifications(w, token) ==
  IF w.reconnectAttempts < maxReconnectAttempts
  THEN [w EXCEPT !.reconnectAttempts = @ + 1, !.timers = Append(@, token)]
  ELSE w

\* WebSocket close(): a socket that is connecting or open starts closing, its
\* close event comes later; on a socket closing or closed it does nothing
close(w, i) ==
  IF w.sockets[i].readyState \in {"connecting", "open"}
  THEN [w EXCEPT !.sockets[i].readyState = "closing"]
  ELSE w

\* the application connects with the token of the session it starts:
\* the mount effect (App.jsx 404-407) and handleLogin (App.jsx 481)
wsConnect ==
  /\ ~ws.connected
  /\ ws.session < MaxSessions
  /\ AlreadyConnected(ws) \/ Len(ws.sockets) < MaxSockets
  /\ ws' = [connectNotifications(ws, ws.session + 1)
              EXCEPT !.session = @ + 1, !.connected = TRUE]
  /\ UNCHANGED restVars

\* the open event of a socket: the onopen handler, App.jsx 247-250
wsOnOpen(i) ==
  /\ ws.sockets[i].readyState = "connecting"
  /\ ws' = [ws EXCEPT !.sockets[i].readyState = "open",
                      !.reconnectAttempts = 0]
  /\ UNCHANGED restVars

\* the close event of a socket (the connection failed, the server closed it,
\* or close() was called): the onclose handler, App.jsx 266-269
wsOnClose(i) ==
  /\ ws.sockets[i].readyState \in {"connecting", "open", "closing"}
  /\ ws' = attemptReconnectNotifications(
             [ws EXCEPT !.sockets[i].readyState = "closed"],
             ws.sockets[i].token)
  /\ UNCHANGED restVars

\* a reconnect timer fires: App.jsx 326-328
wsReconnectTimer(k) ==
  /\ AlreadyConnected(ws) \/ Len(ws.sockets) < MaxSockets
  /\ ws' = connectNotifications([ws EXCEPT !.timers = RemoveAt(@, k)],
                                ws.timers[k])
  /\ UNCHANGED restVars

\* disconnectAll(), called by handleLogout (App.jsx 494) and by the cleanup
\* of the mount effect (App.jsx 424-426): App.jsx 332-341
disconnectAll ==
  /\ ws.session > 0
  /\ ws' = IF ws.notificationWs # 0
           THEN [close(ws, ws.notificationWs)
                   EXCEPT !.notificationWs = 0, !.connected = FALSE]
           ELSE [ws EXCEPT !.connected = FALSE]
  /\ UNCHANGED restVars

\* a logged-out application with a fresh WebSocketService
WsInit ==
  /\ variant = "app"
  /\ tokens = ClearedTokens
  /\ user = Absent
  /\ ls = ClearedLs
  /\ hist = [exchanges |-> 0, faults |-> FALSE, expired |-> FALSE,
             loggedOut |-> FALSE, hadSession |-> FALSE]
  /\ refreshInProgress = FALSE
  /\ refreshQueue = <<>>
  /\ calls = [c \in 1..1 |-> IdleCall]
  /\ backend = [valid |-> {1}, next |-> 2]
  /\ location = "/"
  /\ op = NoOp
  /\ microtasks = <<>>
  /\ ws = NoWs

WsNext ==
  \/ wsConnect
  \/ \E i \in DOMAIN ws.sockets : wsOnOpen(i)
  \/ \E i \in DOMAIN ws.sockets : wsOnClose(i)
  \/ \E k \in DOMAIN ws.timers : wsReconnectTimer(k)
  \/ disconnectAll

WsSpec == WsInit /\ [][WsNext]_vars

\* ------------------------------------------------------------------- claims
\* a session wiped by clearAuth
SessionCleared ==
  getAccessToken = Absent /\ getRefreshToken = Absent /\ getUser = Absent

\* the calls that belong to the refresh exchange of call k
Members(k) == {c \in Calls : calls[c].cyc = k}

\* C1: in services/authService.js at most one POST /auth/refresh is in flight,
\* a caller that asks for a refresh meanwhile waits in the queue of that
\* exchange, and is settled with the outcome of that one exchange
C1_SingleFlight ==
  variant = "svc" =>
    /\ Cardinality(InFlight) <= 1
    /\ refreshInProgress <=> InFlight # {}
    /\ \A c \in Calls :
         calls[c].pc = "queued" => InQueue(c) /\ calls[c].cyc \in InFlight
    /\ \A c \in Calls :
         (calls[c].cyc \notin {0, c} /\ calls[c].settled # "no") =>
            /\ calls[c].settled = calls[calls[c].cyc].settled
            /\ calls[c].val = calls[calls[c].cyc].val
            /\ calls[c].rerr = calls[calls[c].cyc].rerr

\* C1 witness: a caller that waited on another call's exchange got its token
C1_Witness ==
  /\ variant = "svc"
  /\ \E c \in Calls :
       /\ calls[c].cyc \notin {0, c}
       /\ calls[c].settled = "resolved"
       /\ calls[c].val = calls[calls[c].cyc].reply.access
       /\ calls[c].val # Absent

\* C2: when all calls were sent with the same expired access token and each
\* got a 401, one refresh exchange is issued in total and all are retried with
\* the same new token (stated for a backend and network without faults)
C2_ExactlyOneExchange ==
  ( /\ variant = "svc"
    /\ ~hist.faults /\ ~hist.loggedOut
    /\ \A c \in Calls : calls[c].firstHdr = 1 /\ calls[c].refreshes = 1 ) =>
    /\ hist.exchanges = 1
    /\ \A c, d \in Calls :
         (calls[c].sends = 2 /\ calls[d].sends = 2) => calls[c].hdr = calls[d].hdr

\* C3: the AuthService of App.jsx keeps at most one POST /auth/refresh in flight
C3_AppSingleFlight ==
  variant = "app" => Cardinality(InFlight) <= 1

\* C4: with a rotating backend, no fault, no logout and a session to start
\* from, no interleaving of 401s ends with the session cleared
C4_NoLogoutByRefreshRace ==
  (hist.hadSession /\ ~hist.faults /\ ~hist.loggedOut) => ~SessionCleared

\* C5: a successful exchange is committed to the store before a waiter goes on,
\* the initiator and every waiter get the same new access token, each retries
\* with Bearer <that token> and returns the retried response; the queue is
\* empty and refreshInProgress false when they go on
C5_SuccessResolvesAll ==
  variant = "svc" =>
    \A c \in Calls :
      /\ calls[c].pc = "resolved" =>
           /\ ~refreshInProgress /\ refreshQueue = <<>>
           /\ tokens.access = calls[c].val /\ ls.access_token = calls[c].val
           /\ tokens.refresh = calls[calls[c].cyc].reply.refresh
           /\ ls.refresh_token = calls[calls[c].cyc].reply.refresh
      /\ calls[c].settled = "resolved" =>
           /\ calls[calls[c].cyc].settled = "resolved"
           /\ calls[c].val = calls[calls[c].cyc].reply.access
           /\ calls[c].pc \in {"resolved", "retry_sent", "done", "failed"}
           /\ calls[c].pc # "resolved" =>
                calls[c].hdr = bearer(calls[c].val) /\ calls[c].sends = 2
           /\ calls[c].pc = "done" => calls[c].ret = calls[c].lastResp
           /\ calls[c].pc = "failed" => calls[c].fetchErr.kind = "NetErr"

\* C5 witness: a waiter retried with the new token and returned the response
C5_Witness ==
  /\ variant = "svc"
  /\ \E c \in Calls :
       /\ calls[c].cyc \notin {0, c}
       /\ calls[c].pc = "done" /\ calls[c].sends = 2
       /\ calls[c].val # Absent /\ calls[c].hdr = calls[c].val
       /\ calls[calls[c].cyc].pc = "done"

\* what the specification counts as a failed exchange of initiator k: no
\* refresh token, a non-2xx answer, or a body that is not
\* {status: "success", data: {access_token, ...}}
SpecFailed(k) ==
  \/ calls[k].rerr.kind = "NoRefreshToken"
  \/ /\ calls[k].rtok # Absent
     /\ LET r == calls[k].reply IN
          \/ ~r.ok
          \/ r.ok /\ ~r.parses
          \/ r.ok /\ r.parses /\ (~r.success \/ r.access = Absent)

\* C6: when the exchange of initiator k fails, the initiator and every waiter
\* are rejected with the same error, the queue is empty and refreshInProgress
\* false, and isAuthenticated() is false once the initiator has rejected
C6_FailureRejectsAll ==
  variant = "svc" =>
    \A k \in Calls :
      (calls[k].cyc = k /\ calls[k].settled # "no" /\ SpecFailed(k)) =>
         /\ \A c \in Members(k) :
              calls[c].settled = "rejected" /\ calls[c].rerr = calls[k].rerr
         /\ calls[k].pc = "rejected" => (~refreshInProgress /\ refreshQueue = <<>>)
         /\ calls[k].pc = "failed" => ~isAuthenticated

\* C7: once a refresh triggered by a 401 has failed, the call rejects without
\* sending its request again and isAuthenticated() is false from then on
\* (stated for a backend and network without faults, and no logout)
C7_RefreshFailureEndsSession ==
  (~hist.faults /\ ~hist.loggedOut) =>
    \A c \in Calls :
      (calls[c].settled = "rejected" /\ calls[c].pc = "failed") =>
         /\ calls[c].sends = 1
         /\ calls[c].err.kind # "none"
         /\ ~isAuthenticated

\* C8: a call sends its target request at most twice and asks for at most one
\* refresh; the response to the retried request is what it returns, a 401 too
C8_AtMostOneRetry ==
  /\ \A c \in Calls :
       /\ calls[c].sends <= 2
       /\ calls[c].refreshes <= 1
       /\ calls[c].sends = 2 => (calls[c].refreshes = 1 /\ calls[c].settled = "resolved")
       /\ calls[c].pc = "done" => (calls[c].ret = calls[c].lastResp /\ calls[c].ret # 0)
       /\ (calls[c].sends = 2 /\ calls[c].lastResp # 0 /\ calls[c].fetchErr = NoErr
             /\ calls[c].pc # "retry_sent") => calls[c].pc = "done"
  /\ hist.exchanges <= Cardinality({c \in Calls : calls[c].refreshes = 1})

\* C8 witness: the retried request was answered 401 and that was returned
C8_Witness ==
  /\ variant = "app"
  /\ \E c \in Calls :
       calls[c].pc = "done" /\ calls[c].sends = 2 /\ calls[c].ret = 401

\* C9: a fetch of the target request that rejects, the first or the retried
\* one, ends the call with that same error
C9_NetworkErrorPropagates ==
  \A c \in Calls :
    calls[c].fetchErr.kind = "NetErr" =>
       calls[c].pc = "failed" /\ calls[c].err = calls[c].fetchErr

\* C10: a call made while no access token is stored is sent without an
\* Authorization header; a 401 with no refresh token stored then fails it
\* with the no-refresh-token error, no exchange issued, no retry
C10_UnauthenticatedCall ==
  \A c \in Calls :
    /\ (calls[c].pc # "idle" /\ calls[c].firstHdr = Absent) =>
          calls[c].sends >= 1 /\ (calls[c].sends = 1 => calls[c].hdr = Absent)
    /\ (calls[c].firstHdr = Absent /\ calls[c].rerr.kind = "NoRefreshToken") =>
          /\ calls[c].rtok = Absent /\ calls[c].sends = 1
          /\ calls[c].pc = "failed" => calls[c].err.kind = "NoRefreshToken"

\* a 2xx answer of the refresh endpoint whose body is not
\* {status: "success", data: {access_token, ...}}
Malformed(r) == r.ok /\ r.parses /\ (~r.success \/ r.access = Absent)

\* C11: when the exchange of initiator k is answered 2xx with a malformed body
\* (and the body was received), the initiator and every waiter are rejected,
\* none of them sends its request again, and the store holds no session when
\* the initiator goes on
C11_MalformedBodyFails ==
  \A k \in Calls :
    ( /\ calls[k].cyc = k /\ calls[k].settled # "no"
      /\ calls[k].rerr.kind # "NetErr"
      /\ Malformed(calls[k].reply) ) =>
       /\ \A c \in Members(k) :
            calls[c].settled = "rejected" /\ calls[c].sends = 1
       /\ calls[k].pc = "rejected" => SessionCleared

\* C12: a step in which a call receives a response whose status is not 401
\* returns that response, sends nothing (no retry, no refresh exchange) and
\* leaves the store, refreshInProgress, the waiter queue and every other call
\* as they were
C12_NonAuthPassthrough ==
  [][\A c \in Calls :
       (calls'[c].lastResp # calls[c].lastResp /\ calls'[c].lastResp # 401) =>
          /\ calls'[c].pc = "done"
          /\ calls'[c].ret = calls'[c].lastResp
          /\ calls'[c].sends = calls[c].sends
          /\ calls'[c].refreshes = calls[c].refreshes
          /\ hist'.exchanges = hist.exchanges
          /\ UNCHANGED <<tokens, user, ls, refreshInProgress, refreshQueue>>
          /\ \A d \in Calls \ {c} : calls'[d] = calls[d]]_vars

\* C12 witness: a call returned a 500 as it came, while another call's
\* refresh exchange was in flight
C12_Witness ==
  /\ variant = "svc"
  /\ refreshInProgress
  /\ \E c \in Calls :
       /\ calls[c].pc = "done" /\ calls[c].ret = 500
       /\ calls[c].sends = 1 /\ calls[c].refreshes = 0

\* C13: after clearAuth(), whatever setTokens and setUser calls came before,
\* the three getters return absent, in memory and in storage nothing is left,
\* and isAuthenticated() is false; isAuthenticated() is true exactly when
\* getAccessToken() and getUser() are both non-absent
C13_ClearLeavesNothing ==
  /\ op.name = "clearAuth" =>
       /\ getAccessToken = Absent /\ getRefreshToken = Absent /\ getUser = Absent
       /\ ~isAuthenticated
       /\ tokens = ClearedTokens /\ user = Absent /\ ls = ClearedLs
  /\ isAuthenticated <=> (getAccessToken # Absent /\ getUser # Absent)

\* C13 witness: clearAuth() ran after a setTokens and a setUser with values
C13_Witness ==
  /\ op.name = "clearAuth"
  /\ op.a # Absent /\ op.r # Absent /\ op.u # Absent
  /\ SessionCleared

\* C14: after setTokens(a, r) and setUser(u) with a, r tokens and u a profile,
\* both having returned, a new AuthService over the same storage returns
\* a, r and u from its getters
C14_StorageRoundTrip ==
  ( /\ op.name = "reload" /\ op.hasTok /\ op.hasUsr
    /\ op.a # Absent /\ op.r # Absent /\ op.u # Absent ) =>
     /\ getAccessToken = op.a /\ getRefreshToken = op.r /\ getUser = op.u
     /\ tokens = [access |-> op.a, refresh |-> op.r] /\ user = op.u

\* C14 witness: a reload gave back a pair and a profile that replaced the
\* session the service started with
C14_Witness ==
  /\ op.name = "reload" /\ op.hasTok /\ op.hasUsr
  /\ op.a = 2 /\ op.r = 1 /\ op.u = 2
  /\ getAccessToken = 2 /\ getRefreshToken = 1 /\ getUser = 2

\* C15: after a setTokens that returned, a token it was handed as absent is
\* absent from its getter, in the same process and after a reload
C15_AbsentTokenRemoved ==
  (op.name \in {"setTokens", "reload"} /\ op.hasTok) =>
     /\ op.a = Absent => getAccessToken = Absent
     /\ op.r = Absent => getRefreshToken = Absent

\* C17: a store operation does not throw to its caller when localStorage
\* does, and the memory copy holds what the operation was handed
C17_StorageFailureSwallowed ==
  /\ ~op.thrown
  /\ op.name = "setTokens" => tokens = [access |-> op.a, refresh |-> op.r]
  /\ op.name = "setUser" => user = op.u

\* the exchange of call c succeeds in this step with a reply that carries
\* tokens but no user
RefreshedWithoutUser(c) ==
  /\ calls[c].cyc = c
  /\ calls[c].settled = "no" /\ calls'[c].settled = "resolved"
  /\ calls[c].reply.access # Absent /\ calls[c].reply.user = Absent

\* C16: a successful exchange whose reply carries no user leaves the stored
\* profile as it was, in memory and in storage, and a session that was
\* authenticated before the commit is authenticated after it
C16_RefreshKeepsProfile ==
  [][\A c \in Calls :
       RefreshedWithoutUser(c) =>
          /\ user' = user
          /\ ls'.user = ls.user
          /\ isAuthenticated => isAuthenticated']_vars

\* a step in which clearAuth() runs: a logout, a call ending in the catch of
\* authenticatedFetch, or refreshAccessToken giving up
ClearStep ==
  \/ hist'.loggedOut # hist.loggedOut
  \/ \E c \in Calls :
       /\ calls[c].pc \notin {"idle", "failed"} /\ calls'[c].pc = "failed"
       /\ calls[c].pc = "sent" => calls'[c].err.kind = "SessionExpired"
  \/ \E c \in Calls :
       /\ calls[c].settled = "no" /\ calls'[c].settled = "rejected"
       /\ calls'[c].cyc = c
       /\ calls'[c].rerr.kind \in {"NoRefreshToken", "RefreshInvalid",
                                   "InvalidResponse", "RefreshFailed",
                                   "InvalidFormat", "JsonErr"}
       /\ calls'[c].rerr.kind = "JsonErr" => variant = "app"

\* C18: every step that runs clearAuth() ends with the three memory copies
\* and the three stored entries gone together, so whatever runs next (another
\* authenticatedFetch, a refresh continuation, a getter) finds no part of the
\* session left
C18_ClearIsAtomic ==
  [][ClearStep =>
       /\ tokens' = ClearedTokens /\ user' = Absent /\ ls' = ClearedLs
       /\ SessionCleared']_vars

\* C18 witness: a refresh failure cleared the session while another call was
\* waiting for its response
C18_Witness ==
  /\ hist.hadSession /\ hist.expired
  /\ SessionCleared
  /\ \E c \in Calls : calls[c].pc \in {"sent", "retry_sent"}

\* each of access_token, refresh_token and user is absent in memory and in
\* storage, or held in both with the same value, and its getter returns it
Mirrored ==
  /\ ls.access_token = tokens.access /\ getAccessToken = tokens.access
  /\ ls.refresh_token = tokens.refresh /\ getRefreshToken = tokens.refresh
  /\ ls.user = (IF user = Absent THEN Absent ELSE stringify(user))
  /\ getUser = user

\* C20: with a backend that honours the contract, the memory copy and the
\* stored copy of the session agree after every refresh outcome and clearAuth
C20_MemoryMirrorsStorage ==
  ~hist.faults => Mirrored

\* call c starts a refresh exchange in this step
StartsExchange(c) == c \notin InFlight /\ calls'[c].pc = "refreshing"

\* the calls that have waited in the queue of another call's exchange
Waited == {x \in Calls : calls[x].cyc \notin {0, x}}

\* C19: while no exchange is in flight the waiter queue is empty; an exchange
\* starts with an empty queue and with every earlier waiter settled; and a
\* waiter is settled in the very step that settles the exchange it joined
C19_WaitersSettledWithinCycle ==
  /\ [](InFlight = {} => refreshQueue = <<>>)
  /\ [][/\ \A c \in Calls :
             StartsExchange(c) =>
                /\ refreshQueue = <<>> /\ refreshQueue' = <<>>
                /\ \A x \in Waited : calls[x].settled # "no"
        /\ \A x \in Waited :
             (calls[x].settled = "no" /\ calls'[x].settled # "no") =>
                /\ calls[calls[x].cyc].settled = "no"
                /\ calls'[calls[x].cyc].settled = calls'[x].settled
                /\ calls'[x].cyc = calls[x].cyc]_vars

\* C19 witness: a second exchange is in flight after a cycle that had a waiter
C19_Witness ==
  \E k \in Calls, w \in Calls, n \in Calls :
    /\ k # w /\ k # n /\ w # n
    /\ calls[w].cyc = k /\ calls[w].settled # "no"
    /\ calls[n].cyc = n /\ calls[n].pc = "refreshing"

\* x stands before y in the sequence q
Before(q, x, y) ==
  \E i \in 1..Len(q), j \in 1..Len(q) : i < j /\ q[i] = x /\ q[j] = y

\* a continuation that is settled and has not resumed
Pending(x) == calls[x].pc \in {"resolved", "rejected"}

\* C21: a caller joins the waiter queue at its end; waiters settled together
\* are settled in the order of the queue; and they resume in that order
C21_WaitersFifo ==
  [][/\ Len(refreshQueue') > Len(refreshQueue) =>
          \A i \in 1..Len(refreshQueue) : refreshQueue'[i] = refreshQueue[i]
     /\ \A x \in Calls, y \in Calls :
          (Before(refreshQueue, x, y) /\ calls'[x].settled # "no") =>
             /\ calls'[y].settled = calls'[x].settled
             /\ Before(microtasks', x, y)
     /\ \A x \in Calls, y \in Calls :
          (Before(microtasks, x, y) /\ ~Pending(y)') => ~Pending(x)']_vars

\* C21 witness: call 3 joined the queue before call 2, both were settled with
\* the exchange of call 1, and call 3 has resumed while call 2 has not
C21_Witness ==
  /\ calls[3].cyc = 1 /\ calls[2].cyc = 1
  /\ calls[3].pc = "retry_sent" /\ calls[2].pc = "resolved"
  /\ microtasks = <<2>>

\* C23: after handleLogout has called clearAuth, isAuthenticated() is false
\* and no credentials are stored, whatever completes afterwards
C23_LogoutIsFinal ==
  hist.loggedOut => (~isAuthenticated /\ SessionCleared)

\* C24: a step in which the retried request of a call fails at network level
\* leaves the credentials, the user and the location as they were
C24_RetryFailureKeepsSession ==
  [][\A c \in Calls :
       (calls[c].pc = "retry_sent" /\ calls'[c].fetchErr.kind = "NetErr") =>
          UNCHANGED <<tokens, user, ls, location>>]_vars

\* C25: refreshInProgress is true only while an exchange is in flight; while
\* it is false the waiter queue is empty; and every step that ends an
\* exchange, or finds no refresh token to start one, leaves refreshInProgress
\* false and the queue empty
C25_NeverStuckRefreshing ==
  /\ [](refreshInProgress => InFlight # {})
  /\ [](~refreshInProgress => refreshQueue = <<>>)
  /\ [][\A k \in Calls :
          (calls[k].cyc' = k /\ calls[k].settled = "no" /\ calls[k].settled' # "no") =>
             (~refreshInProgress' /\ refreshQueue' = <<>>)]_vars

\* C25 witness: an exchange with a waiter ended on a body that does not parse
C25_Witness ==
  /\ ~refreshInProgress /\ refreshQueue = <<>>
  /\ \E k \in Calls, w \in Calls :
       /\ w # k /\ calls[w].cyc = k
       /\ calls[k].rerr.kind = "JsonErr"
       /\ calls[w].settled = "rejected"

\* C26: under LiveSpec, a call that waits in the refresh queue eventually
\* returns a response or rejects
C26_WaitersTerminate ==
  \A c \in 1..MaxLiveCalls :
    (calls[c].pc = "queued") ~> (calls[c].pc \in {"done", "failed"})

\* C26 witness: a call that waited in the queue has returned a response
C26_Witness ==
  \E c \in Calls :
    /\ calls[c].cyc \notin {0, c}
    /\ calls[c].pc = "done" /\ calls[c].sends = 2

\* a reply of the refresh endpoint that carries a new pair
NewPair(r) == r.ok /\ r.parses /\ r.success /\ r.access # Absent /\ r.refresh # Absent

\* C22: a step in which a request made through the authenticatedFetch of
\* utils/auth.js receives a 401 while a refresh token is stored does not
\* return that 401: the call goes on to refresh and retry
C22_UtilRefreshesOn401 ==
  [][\A c \in Calls :
       ( /\ calls[c].pc = "sent" /\ calls'[c].lastResp = 401
         /\ utilGetRefreshToken # Absent ) =>
          (calls'[c].pc # "done" /\ calls'[c].refreshes = 1)]_vars

\* C27: a step in which auth.refreshToken() reads a reply that carries a new
\* pair stores the pair, returns the new access token and leaves the user
C27_UtilRefreshStoresPair ==
  [][\A c \in Calls :
       ( /\ calls[c].pc = "refresh_body" /\ calls'[c].pc # "refresh_body"
         /\ NewPair(calls[c].reply) ) =>
          /\ calls'[c].pc = "done" /\ calls'[c].val = calls[c].reply.access
          /\ utilGetToken' = calls[c].reply.access
          /\ utilGetRefreshToken' = calls[c].reply.refresh
          /\ ls'.user = ls.user]_vars

\* C30: the access token utils/auth.js reads from storage is the one the
\* AuthService classes keep there: stored by one it is attached by the other,
\* cleared by one it is gone for the other
C30_SharedAccessTokenKey ==
  utilGetToken = ls.access_token

\* C28: after disconnectAll no notification socket is created until the
\* application calls connectNotifications again, and the close event of a
\* socket that disconnectAll closed sets no reconnect timer
C28_NoReconnectAfterDisconnect ==
  [][/\ (/\ ws.session > 0 /\ ~ws.connected
         /\ Len(ws'.sockets) > Len(ws.sockets)) => ws'.connected
     /\ \A i \in DOMAIN ws.sockets :
          ( /\ ws.sockets[i].readyState = "closing"
            /\ ws'.sockets[i].readyState = "closed" ) =>
             ws'.timers = ws.timers]_vars

\* C29: reconnectAttempts stays within 0..maxReconnectAttempts, the open
\* event of a socket sets it to 0, and at most one reconnect timer is pending
C29_ReconnectBounded ==
  /\ [](/\ ws.reconnectAttempts \in 0..maxReconnectAttempts
        /\ Len(ws.timers) <= 1)
  /\ [][\A i \in DOMAIN ws.sockets :
          ( /\ ws.sockets[i].readyState = "connecting"
            /\ ws'.sockets[i].readyState = "open" ) =>
             ws'.reconnectAttempts = 0]_vars

====
